---- MODULE Spec2Model ----
(***************************************************************************)
(* A model of src/server.js: the retrying fetch primitive (fetchJSON), the *)
(* geocoding fallback chain (geocodeCity), the enrichment fan-out          *)
(* (makeTravelInfoRequest) and the batch loop (processItems).              *)
(*                                                                         *)
(* Four specifications share the module:                                   *)
(*   SpecFetch  one call of fetchJSON against a provider that answers each *)
(*              attempt with an arbitrary response;                        *)
(*   Spec       one call of processItems, where every fetchJSON call is    *)
(*              represented by its outcome (a parsed payload or a throw);  *)
(*   SpecGate   the rate gate (waitGeocodeSlot) and the requests sent      *)
(*              behind it, over a clock, for one or two batches at a time; *)
(*   SpecLive   the three of them under fair scheduling, for termination.  *)
(***************************************************************************)
EXTENDS Integers, Sequences, FiniteSets, TLC

VARIABLES
    \* ---- fetchJSON (SpecFetch) ----
    f_retries,    \* the retries option of the call
    f_attempt,    \* the loop variable attempt
    f_pc,         \* "loop" | "sleep" | "returned" | "threw"
    f_hist,       \* the responses fetch() produced, one per attempt made
    f_sleeps,     \* number of backoff waits performed (await sleep(delay))
    f_delay,      \* the delay of the most recent backoff wait, ms
    f_lastErr,    \* the local lastErr
    f_out,        \* the returned value, or the error thrown to the caller
    \* ---- processItems (Spec) ----
    items,        \* the argument of processItems
    i,            \* the loop index of processItems (0-based, as in the code)
    results,      \* the local results array
    pc,           \* position inside the processing of items[i]
    city,         \* the local city of the current iteration
    geo,          \* what geocodeCity returned (NoGeo until it returns)
    geoErr,       \* the exception that escaped geocodeCity (NoErr: none)
    pend,         \* geocodeCity: the provider B/C result awaiting its reverse lookup
    calls,        \* the provider and gate calls made for the current item, in order
    br,           \* the four enrichment branches' promises
    bundle,       \* what makeTravelInfoRequest returned (NoBundle until then)
    mtErr,        \* the exception makeTravelInfoRequest threw (NoErr: none)
    \* ---- the rate gate over time (SpecGate) ----
    g_callers,    \* the batches in flight, each inside its own geocodeCity
    g_now,        \* the clock, Date.now(), in ms
    lastGeocodeAt,\* the module variable of line 152
    g_pc,         \* per batch: "call" | "gateSleep" | "fetch" | "backoff"
    g_wake,       \* per batch: when the timer of its pending sleep() is due
    g_attempt,    \* per batch: the attempt of its fetchJSON call
    g_calls,      \* the number of calls of waitGeocodeSlot made so far
    g_fails,      \* the number of failed attempts so far
    g_acqGap,     \* <<time between the last two gate acquisitions>>, <<>> before
    g_lastReq,    \* <<time of the last request to a rate-limited provider>>
    g_reqGap      \* <<time between the last two such requests>>, <<>> before

fvars == <<f_retries, f_attempt, f_pc, f_hist, f_sleeps, f_delay, f_lastErr, f_out>>
bvars == <<items, i, results, pc, city, geo, geoErr, pend, calls, br, bundle, mtErr>>
gvars == <<g_callers, g_now, lastGeocodeAt, g_pc, g_wake, g_attempt, g_calls,
           g_fails, g_acqGap, g_lastReq, g_reqGap>>
vars == <<fvars, bvars, gvars>>

\* what an action of processItems, of fetchJSON, and of the gate leaves alone
notBatch == <<fvars, gvars>>
notFetch == <<bvars, gvars>>
notGate == <<fvars, bvars>>

----------------------------------------------------------------------------
(* Bounds of the model *)

\* the largest retries option explored
MaxRetries == 2
\* the longest items array explored
MaxItems == 2
\* the most calls of waitGeocodeSlot made in a run of SpecGate
MaxCalls == 3
\* the most attempts the rate-limited providers fail in a run of SpecGate
MaxFails == 4

----------------------------------------------------------------------------
(* fetchJSON, src/server.js 71-133 *)

\* default of the baseDelayMs option; no caller overrides it
baseDelayMs == 350

\* the statuses line 111 calls retryable
RETRYABLE_STATUSES == {408, 425, 429, 500, 502, 503, 504}

\* non-2xx statuses outside the retryable list, as samples
OtherStatuses == {400, 404}

\* Math.floor(Math.random() * 250) ranges over 0..249; its extremes
JitterSamples == {0, 249}

NoCode == "none"
NoErr == [message |-> <<>>, code |-> NoCode]
NoValue == "undefined"

\* Response bodies a provider sends with a 2xx status.
OkBodies == {"[]", "{\"a\":1}", "<html>", ""}

\* What fetch() produces for one attempt: a response (status, body text) or
\* a rejection (network failure, or the abort fired by the timeout timer).
Responses ==
    [kind : {"http"}, status : {200}, body : OkBodies, code : {NoCode}]
    \cup [kind : {"http"}, status : RETRYABLE_STATUSES \cup OtherStatuses,
          body : {"err"}, code : {NoCode}]
    \cup {[kind |-> "reject", status |-> 0, body |-> "fetch failed", code |-> "ECONNRESET"],
          [kind |-> "reject", status |-> 0, body |-> "This operation was aborted", code |-> NoCode]}

\* res.ok
ResOk(res) == res.status >= 200 /\ res.status <= 299

\* JSON.parse(text) on the sample bodies: a value, or a SyntaxError.
JSONparse(text) ==
    CASE text = "[]" -> [ok |-> TRUE, value |-> "emptyArray"]
      [] text = "{\"a\":1}" -> [ok |-> TRUE, value |-> "object"]
      [] OTHER -> [ok |-> FALSE, value |-> NoValue]

\* String(n) for a natural number: its decimal digits, one token each
DigitChar(d) ==
    CASE d = 0 -> "0" [] d = 1 -> "1" [] d = 2 -> "2" [] d = 3 -> "3" [] d = 4 -> "4"
      [] d = 5 -> "5" [] d = 6 -> "6" [] d = 7 -> "7" [] d = 8 -> "8" [] OTHER -> "9"

RECURSIVE NumText(_)
NumText(n) == IF n < 10 THEN <<DigitChar(n)>> ELSE NumText(n \div 10) \o <<DigitChar(n % 10)>>

\* new Error(message): an error with no cause and no code
NewError(message) == [message |-> message, code |-> NoCode]

\* explainFetchError, lines 54-68: the message, then the cause's fields that
\* are present, joined by " | ".  Descriptions are sequences of tokens.
explainFetchError(err) ==
    err.message \o (IF err.code # NoCode THEN <<"|", "code=", err.code>> ELSE <<>>)

\* a loop that stops one attempt early
LoopCondStrict(attempt, retries) == attempt < retries

\* the for-loop condition of line 83
LoopCond(attempt, retries) == attempt <= retries

\* Lines 88-117, the try block of one attempt.  ctl is "return" (line 103),
\* "throw" (an exception raised inside the try block, to be caught by the
\* catch block of line 118) or "next" (control leaves the try normally).
TryBlock(res, attempt, retries) ==
    IF res.kind = "reject"
    THEN [ctl |-> "throw", value |-> NoValue,
          err |-> [message |-> <<res.body>>, code |-> res.code]]
    ELSE IF ResOk(res)
    THEN LET p == JSONparse(res.body)
             err == NewError(<<"JSON invalido de", "url">>)
         IN  IF p.ok THEN [ctl |-> "return", value |-> p.value, err |-> NoErr]
             ELSE IF attempt = retries
                  THEN [ctl |-> "throw", value |-> NoValue, err |-> err]
                  ELSE [ctl |-> "next", value |-> NoValue, err |-> err]
    ELSE LET retryable == res.status \in RETRYABLE_STATUSES
         IN  IF ~retryable \/ attempt = retries
             THEN [ctl |-> "throw", value |-> NoValue,
                   err |-> NewError(<<"HTTP">> \o NumText(res.status) \o <<"em", "url">>
                                    \o (IF res.body # "" THEN <<"-", res.body>> ELSE <<>>))]
             ELSE [ctl |-> "next", value |-> NoValue,
                   err |-> NewError(<<"HTTP">> \o NumText(res.status) \o <<"tentativa">>
                                    \o NumText(attempt + 1) \o <<"/">> \o NumText(retries + 1))]

\* a catch block that passes every exception on to the caller
CatchBlockRethrow(err, attempt, retries) ==
    [ctl |-> "throw", value |-> NoValue, err |-> NewError(explainFetchError(err))]

\* Lines 118-123, the catch block: it receives every exception of the try
\* block, those thrown at lines 107 and 114 included.
CatchBlock(err, attempt, retries) ==
    LET msg == explainFetchError(err)
    IN  IF attempt = retries
        THEN [ctl |-> "throw", value |-> NoValue, err |-> NewError(msg)]
        ELSE [ctl |-> "next", value |-> NoValue, err |-> err]

\* One iteration of the loop up to the finally block.
Attempt(res, attempt, retries) ==
    LET t == TryBlock(res, attempt, retries)
    IN  IF t.ctl = "throw" THEN CatchBlock(t.err, attempt, retries) ELSE t

\* 2^n
RECURSIVE Pow2(_)
Pow2(n) == IF n = 0 THEN 1 ELSE 2 * Pow2(n - 1)

\* a backoff that grows linearly from zero
BackoffDelayLinear(attempt, jitter) == baseDelayMs * attempt + jitter

\* line 128
BackoffDelay(attempt, jitter) == baseDelayMs * Pow2(attempt) + jitter

FetchInit ==
    /\ f_retries \in 0..MaxRetries
    /\ f_attempt = 0
    /\ f_pc = "loop"
    /\ f_hist = <<>>
    /\ f_sleeps = 0
    /\ f_delay = 0
    /\ f_lastErr = NoErr
    /\ f_out = [value |-> NoValue, err |-> NoErr]

\* Lines 83-126: the loop test and one attempt.  When the test fails the
\* loop is left and line 132 throws lastErr.
fetchAttempt ==
    /\ f_pc = "loop"
    /\ IF LoopCond(f_attempt, f_retries)
       THEN \E res \in Responses :
              LET a == Attempt(res, f_attempt, f_retries)
              IN  /\ f_hist' = Append(f_hist, res)
                  /\ CASE a.ctl = "return" ->
                            /\ f_pc' = "returned"
                            /\ f_out' = [value |-> a.value, err |-> NoErr]
                            /\ f_lastErr' = f_lastErr
                       [] a.ctl = "throw" ->
                            /\ f_pc' = "threw"
                            /\ f_out' = [value |-> NoValue, err |-> a.err]
                            /\ f_lastErr' = f_lastErr
                       [] OTHER ->
                            /\ f_pc' = "sleep"
                            /\ f_out' = f_out
                            /\ f_lastErr' = a.err
       ELSE /\ f_pc' = "threw"
            /\ f_out' = [value |-> NoValue,
                          err |-> IF f_lastErr # NoErr THEN f_lastErr
                                  ELSE NewError(<<"Falha desconhecida">>)]
            /\ UNCHANGED <<f_hist, f_lastErr>>
    /\ UNCHANGED <<f_retries, f_attempt, f_sleeps, f_delay, notFetch>>

\* Lines 128-129 and the loop increment: the backoff wait.
fetchBackoff ==
    /\ f_pc = "sleep"
    /\ \E jitter \in JitterSamples :
          f_delay' = BackoffDelay(f_attempt, jitter)
    /\ f_sleeps' = f_sleeps + 1
    /\ f_attempt' = f_attempt + 1
    /\ f_pc' = "loop"
    /\ UNCHANGED <<f_retries, f_hist, f_lastErr, f_out, notFetch>>

FetchNext ==
    \/ fetchAttempt
    \/ fetchBackoff

----------------------------------------------------------------------------
(* Values *)

\* An element of the items array: a string (its characters) or null.
Str(chars) == [type |-> "string", chars |-> chars]
Null == [type |-> "null", chars |-> <<>>]

ItemSamples == {Str(<<>>), Str(<<" ">>), Str(<<"a">>), Str(<<" ", "a", " ">>), Null}

\* A number: finite, or NaN.
Num(n) == [nan |-> FALSE, val |-> n]
NaN == [nan |-> TRUE, val |-> 0]

\* Number.isFinite
IsFinite(x) == ~x.nan

\* items[i] || '' followed by String(...): null and '' are falsy
StringOrEmpty(v) == IF v.type = "null" \/ v.chars = <<>> THEN <<>> ELSE v.chars

\* String.prototype.trim on a sequence of characters
RECURSIVE TrimStart(_)
TrimStart(s) == IF s # <<>> /\ Head(s) = " " THEN TrimStart(Tail(s)) ELSE s

RECURSIVE TrimEnd(_)
TrimEnd(s) ==
    IF s # <<>> /\ s[Len(s)] = " " THEN TrimEnd(SubSeq(s, 1, Len(s) - 1)) ELSE s

Trim(s) == TrimEnd(TrimStart(s))

\* a blank check that never fires
IsBlankNever(c) == FALSE

\* line 405, !city
IsBlank(c) == c = <<>>

DigitVal(c) ==
    CASE c = "0" -> 0 [] c = "1" -> 1 [] c = "2" -> 2 [] c = "3" -> 3 [] c = "4" -> 4
      [] c = "5" -> 5 [] c = "6" -> 6 [] c = "7" -> 7 [] c = "8" -> 8 [] c = "9" -> 9
      [] OTHER -> -1

RECURSIVE ParseDigits(_, _, _)
ParseDigits(s, k, acc) ==
    IF k > Len(s) \/ DigitVal(s[k]) < 0 THEN acc
    ELSE ParseDigits(s, k + 1, acc * 10 + DigitVal(s[k]))

\* parseFloat on a sequence of characters (unsigned integers suffice for the
\* sample payloads): the longest numeric prefix, NaN when there is none
parseFloat(s) ==
    IF s = <<>> \/ DigitVal(s[1]) < 0 THEN NaN ELSE Num(ParseDigits(s, 1, 0))

\* String.prototype.toUpperCase on the sample country codes
toUpperCase(s) ==
    CASE s = "pt" -> "PT" [] s = "br" -> "BR" [] OTHER -> s

----------------------------------------------------------------------------
(* geocodeCity, src/server.js 162-287 *)

NoGeo == [st |-> "none", country_code |-> "", latitude |-> NaN, longitude |-> NaN]
NullGeo == [st |-> "null", country_code |-> "", latitude |-> NaN, longitude |-> NaN]
Geo(cc, lat, lon) == [st |-> "ok", country_code |-> cc, latitude |-> lat, longitude |-> lon]

\* What a search call yields: fetchJSON threw, or a parsed list of entries.
\* An entry is null or a record; a missing country code is "".
NullEntry == [isNull |-> TRUE, lat |-> <<>>, lon |-> <<>>, country_code |-> ""]
Entry(lat, lon, cc) == [isNull |-> FALSE, lat |-> lat, lon |-> lon, country_code |-> cc]
FetchThrew == [threw |-> TRUE, list |-> <<>>]
Payload(list) == [threw |-> FALSE, list |-> list]

\* Provider A (Open-Meteo) sends latitude/longitude as numbers.
AEntry(latitude, longitude, cc) ==
    [isNull |-> FALSE, latitude |-> latitude, longitude |-> longitude, country_code |-> cc]

AOutcomes ==
    {FetchThrew, Payload(<<>>), Payload(<<NullEntry>>)}
    \cup {Payload(<<AEntry(Num(38), Num(9), cc)>>) : cc \in {"PT", ""}}

\* Providers B and C (Nominatim, geocode.maps.co) send lat/lon as strings.
BOutcomes ==
    {FetchThrew, Payload(<<>>), Payload(<<NullEntry>>)}
    \cup {Payload(<<Entry(lat, <<"3", "4">>, cc)>>) :
            lat \in {<<"1", "2">>, <<"x">>}, cc \in {"pt", ""}}

COutcomes ==
    {FetchThrew, Payload(<<>>), Payload(<<NullEntry>>)}
    \cup {Payload(<<Entry(lat, <<"7", "8">>, cc)>>) :
            lat \in {<<"5", "6">>, <<"x">>}, cc \in {"br", ""}}

\* What the reverse lookup yields: fetchJSON threw, or an address with or
\* without a country code.
RevOutcomes == {[threw |-> TRUE, country_code |-> ""],
                [threw |-> FALSE, country_code |-> "pt"],
                [threw |-> FALSE, country_code |-> ""]}

\* For the call log: did the search call yield a usable result, i.e. a
\* non-empty list whose first entry is a record?
Usable(out) == ~out.threw /\ out.list # <<>> /\ ~out.list[1].isNull

\* provider A's try block without its return
TryProviderANoReturn(out) ==
    [ctl |-> IF out.threw THEN "throw" ELSE "next", geo |-> NoGeo]

\* Lines 165-179: the body of provider A's try block.
TryProviderA(out) ==
    IF out.threw THEN [ctl |-> "throw", geo |-> NoGeo]
    ELSE IF Len(out.list) > 0
    THEN LET r == out.list[1]
         IN  IF r.isNull THEN [ctl |-> "throw", geo |-> NoGeo]
             ELSE [ctl |-> "return",
                   geo |-> Geo(r.country_code, r.latitude, r.longitude)]
    ELSE [ctl |-> "next", geo |-> NoGeo]

\* a reverse lookup that is never asked for
NeedsReverseNever(cc, lat, lon) == FALSE

\* line 209 (and 256): is the reverse lookup needed?
NeedsReverse(cc, lat, lon) == cc = "" /\ IsFinite(lat) /\ IsFinite(lon)

\* Lines 195-209 (and 242-256): the search of provider B or C up to the
\* decision about the reverse lookup.
TrySearch(out) ==
    IF out.threw THEN [ctl |-> "throw", geo |-> NoGeo]
    ELSE IF Len(out.list) > 0
    THEN LET r == out.list[1]
         IN  IF r.isNull THEN [ctl |-> "throw", geo |-> NoGeo]
             ELSE LET lat == parseFloat(r.lat)
                      lon == parseFloat(r.lon)
                      cc == toUpperCase(r.country_code)
                  IN  [ctl |-> IF NeedsReverse(cc, lat, lon) THEN "reverse" ELSE "return",
                       geo |-> Geo(cc, lat, lon)]
    ELSE [ctl |-> "next", geo |-> NoGeo]

\* Lines 211-225 (and 258-272): the reverse lookup inside its own try/catch,
\* then the return of lines 228-235.
ReverseStep(g, rev) ==
    IF rev.threw THEN g
    ELSE LET cc == toUpperCase(rev.country_code)
         IN  Geo(IF cc # "" THEN cc ELSE g.country_code, g.latitude, g.longitude)

\* provider C's attempt without its catch
SwallowNotC(p, ctl) == IF ctl = "throw" /\ p # "C" THEN "next" ELSE ctl

\* The catch (_) { } of lines 180, 237 and 284 around provider p's attempt.
Swallow(p, ctl) == IF ctl = "throw" THEN "next" ELSE ctl

\* The first entry of a search call's answer, null when there is none.
FirstEntry(out) == IF ~out.threw /\ out.list # <<>> THEN out.list[1] ELSE NullEntry

\* An entry of the call log: the operation, the coordinates passed to it
\* (the reverse lookup and the forecast), whether it yielded something
\* usable, and for a search the first entry of its answer.
Call(op, lat, lon, ok) ==
    [op |-> op, lat |-> lat, lon |-> lon, ok |-> ok, res |-> NullEntry]
SearchCall(op, out) ==
    [op |-> op, lat |-> NaN, lon |-> NaN, ok |-> Usable(out), res |-> FirstEntry(out)]

\* After a waitGeocodeSlot() call: the statement that follows it.
AfterGate(p) ==
    CASE p = "gateB" -> "geoB"
      [] p = "gateRevB" -> "revB"
      [] p = "gateC" -> "geoC"
      [] OTHER -> "revC"

\* lines 164-180
geoProviderA ==
    /\ pc = "geoA"
    /\ \E out \in AOutcomes :
         LET r == TryProviderA(out)
             ctl == Swallow("A", r.ctl)
         IN  /\ calls' = Append(calls, SearchCall("A", out))
             /\ CASE ctl = "return" -> /\ geo' = r.geo
                                       /\ pc' = "geoDone"
                                       /\ geoErr' = geoErr
                  [] ctl = "throw" ->  /\ geo' = geo
                                       /\ pc' = "geoDone"
                                       /\ geoErr' = NewError(<<"provider A">>)
                  [] OTHER ->          /\ geo' = geo
                                       /\ pc' = "gateB"
                                       /\ geoErr' = geoErr
    /\ UNCHANGED <<items, i, results, city, pend, br, bundle, mtErr, notBatch>>

\* Lines 183, 210, 240, 257: await waitGeocodeSlot().  The call sleeps for a
\* time that depends on the clock and on lastGeocodeAt alone and then
\* returns; it cannot throw.  Here the call is logged.
waitGeocodeSlot ==
    /\ pc \in {"gateB", "gateRevB", "gateC", "gateRevC"}
    /\ calls' = Append(calls, Call("gate", NaN, NaN, TRUE))
    /\ pc' = AfterGate(pc)
    /\ UNCHANGED <<items, i, results, city, geo, geoErr, pend, br, bundle, mtErr, notBatch>>

\* lines 184-209 and 227-237 (provider B), 241-256 and 274-284 (provider C)
geoSearch(p, outcomes, here, gateRev, onNext) ==
    /\ pc = here
    /\ \E out \in outcomes :
         LET r == TrySearch(out)
             ctl == Swallow(p, r.ctl)
         IN  /\ calls' = Append(calls, SearchCall(p, out))
             /\ CASE ctl = "return" ->  /\ geo' = r.geo
                                        /\ pc' = "geoDone"
                                        /\ UNCHANGED <<pend, geoErr>>
                  [] ctl = "reverse" -> /\ pend' = r.geo
                                        /\ pc' = gateRev
                                        /\ UNCHANGED <<geo, geoErr>>
                  [] ctl = "throw" ->   /\ geoErr' = NewError(<<"provider", p>>)
                                        /\ pc' = "geoDone"
                                        /\ UNCHANGED <<geo, pend>>
                  [] OTHER ->           /\ pc' = IF onNext = "null" THEN "geoDone" ELSE onNext
                                        /\ geo' = IF onNext = "null" THEN NullGeo ELSE geo
                                        /\ UNCHANGED <<pend, geoErr>>
    /\ UNCHANGED <<items, i, results, city, br, bundle, mtErr, notBatch>>

geoProviderB == geoSearch("B", BOutcomes, "geoB", "gateRevB", "gateC")

\* falling out of provider C reaches line 286, return null
geoProviderC == geoSearch("C", COutcomes, "geoC", "gateRevC", "null")

\* lines 211-235 and 258-282: the reverse lookup and the return after it
geoReverse ==
    /\ pc \in {"revB", "revC"}
    /\ \E rev \in RevOutcomes :
         /\ calls' = Append(calls, Call("reverse", pend.latitude, pend.longitude, ~rev.threw))
         /\ geo' = ReverseStep(pend, rev)
    /\ pc' = "geoDone"
    /\ UNCHANGED <<items, i, results, city, geoErr, pend, br, bundle, mtErr, notBatch>>

----------------------------------------------------------------------------
(* Enrichment, src/server.js 290-399 *)

Pending(stage) == [st |-> "pending", stage |-> stage, code |-> "", rate |-> 0,
                   isNull |-> TRUE, currencies |-> <<>>]
Rejected == [st |-> "rejected", stage |-> "end", code |-> "", rate |-> 0,
             isNull |-> TRUE, currencies |-> <<>>]
FulfilledNull == [st |-> "fulfilled", stage |-> "end", code |-> "", rate |-> 0,
                  isNull |-> TRUE, currencies |-> <<>>]
\* a fulfilled promise with a non-null value
Fulfilled(code, rate, currencies) ==
    [st |-> "fulfilled", stage |-> "end", code |-> code, rate |-> rate,
     isNull |-> FALSE, currencies |-> currencies]

NoBranches == [weather |-> Pending("none"), country |-> Pending("none"),
               holidays |-> Pending("none"), fx |-> Pending("none")]

\* The currency lists the country-metadata provider may answer with.
CurrencySamples == {<<>>, <<"EUR">>, <<"USD">>}

\* the exchange-rate provider's table: the BRL rate of each base currency
RateOf(base) == IF base = "EUR" THEN 6 ELSE 5

\* info?.currencies?.[0]?.code || null, with "" for null
FirstCurrency(info) ==
    IF info.isNull \/ info.currencies = <<>> THEN "" ELSE info.currencies[1]

\* a guard that lets the request go out without a code
SkippedNever(iso2) == FALSE

\* getCountryInfo / getHolidays lines 311 and 332: no request without a code
Skipped(iso2) == iso2 = ""

\* Lines 359-368: the array handed to Promise.allSettled.  The four async
\* functions run synchronously up to their first await, so the requests of
\* the first three branches and the exchange branch's own country lookup
\* are issued here, in this order.
StartBranches(g) ==
    [weather |-> Pending("fetch"),
     country |-> IF Skipped(g.country_code) THEN FulfilledNull ELSE Pending("fetch"),
     holidays |-> IF Skipped(g.country_code) THEN FulfilledNull ELSE Pending("fetch"),
     fx |-> IF Skipped(g.country_code) THEN FulfilledNull ELSE Pending("info")]

StartCalls(g) ==
    <<Call("weather", g.latitude, g.longitude, TRUE)>>
    \o (IF Skipped(g.country_code) THEN <<>>
        ELSE <<Call("country", NaN, NaN, TRUE),
               Call("holidays", NaN, NaN, TRUE),
               Call("fxcountry", NaN, NaN, TRUE)>>)

\* a join that never resolves
JoinNever(b) == "wait"

\* Promise.all in place of Promise.allSettled: rejects with the first rejection
JoinFailFast(b) ==
    IF \E k \in DOMAIN b : b[k].st = "rejected" THEN "throw"
    ELSE IF \A k \in DOMAIN b : b[k].st # "pending" THEN "values" ELSE "wait"

\* Promise.allSettled, line 359: "wait" until every promise has settled,
\* then "values"; it never rejects ("throw").
JoinOutcome(b) ==
    IF \A k \in DOMAIN b : b[k].st # "pending" THEN "values" ELSE "wait"

NoBundle == [st |-> "none"]

\* lines 370-398
Assemble(c, g, b) ==
    LET countryInfo == IF b.country.st = "fulfilled" THEN b.country ELSE FulfilledNull
        fxRate == IF b.fx.st = "fulfilled" THEN b.fx.rate ELSE 0
        weather == IF b.weather.st = "fulfilled" THEN b.weather ELSE FulfilledNull
        holidays == IF b.holidays.st = "fulfilled" THEN b.holidays ELSE FulfilledNull
    IN  [st |-> "ok",
         destination |-> [input |-> c, countryCode |-> g.country_code,
                          latitude |-> g.latitude, longitude |-> g.longitude],
         weather |-> [isNull |-> weather.isNull],
         countryInfo |-> [isNull |-> countryInfo.isNull, currencies |-> countryInfo.currencies],
         holidays |-> [isNull |-> holidays.isNull],
         exchange |-> IF fxRate # 0 /\ FirstCurrency(countryInfo) # ""
                      THEN [isNull |-> FALSE, base |-> countryInfo.currencies[1],
                            quote |-> "BRL", rate |-> fxRate]
                      ELSE [isNull |-> TRUE, base |-> "", quote |-> "", rate |-> 0]]

\* a null check that never fires
GeoMissingNever(g) == FALSE

\* line 355, !geo
GeoMissing(g) == g.st # "ok"

\* Lines 354-368: geocodeCity has returned (or thrown); throw when there is
\* no result, else start the four branches.
enrichStart ==
    /\ pc = "geoDone"
    /\ IF geoErr # NoErr
       THEN /\ mtErr' = geoErr
            /\ pc' = "mtDone"
            /\ UNCHANGED <<br, calls>>
       ELSE IF GeoMissing(geo)
       THEN /\ mtErr' = NewError(<<"Nao foi possivel geocodificar">> \o city)
            /\ pc' = "mtDone"
            /\ UNCHANGED <<br, calls>>
       ELSE /\ br' = StartBranches(geo)
            /\ calls' = calls \o StartCalls(geo)
            /\ pc' = "enrich"
            /\ UNCHANGED mtErr
    /\ UNCHANGED <<items, i, results, city, geo, geoErr, pend, bundle, notBatch>>

\* getWeather, lines 290-308: the forecast request settles
weatherSettles ==
    /\ pc = "enrich"
    /\ br.weather.st = "pending"
    /\ \E threw \in BOOLEAN :
         br' = [br EXCEPT !.weather = IF threw THEN Rejected ELSE Fulfilled("", 0, <<>>)]
    /\ UNCHANGED <<items, i, results, pc, city, geo, geoErr, pend, calls, bundle, mtErr, notBatch>>

\* getCountryInfo, lines 310-329: the request of the country-info branch settles
countrySettles ==
    /\ pc = "enrich"
    /\ br.country.st = "pending"
    /\ \/ br' = [br EXCEPT !.country = Rejected]
       \/ \E cur \in CurrencySamples :
            br' = [br EXCEPT !.country = Fulfilled("", 0, cur)]
    /\ UNCHANGED <<items, i, results, pc, city, geo, geoErr, pend, calls, bundle, mtErr, notBatch>>

\* getHolidays, lines 331-341: the request settles; a payload that is not an
\* array makes data.filter throw
holidaysSettles ==
    /\ pc = "enrich"
    /\ br.holidays.st = "pending"
    /\ \E out \in {"throw", "array", "notArray"} :
         br' = [br EXCEPT !.holidays = IF out = "array" THEN Fulfilled("", 0, <<>>)
                                       ELSE Rejected]
    /\ UNCHANGED <<items, i, results, pc, city, geo, geoErr, pend, calls, bundle, mtErr, notBatch>>

\* Lines 364-366: the exchange branch's own getCountryInfo settles; with a
\* currency code the rate request is issued, else the branch yields null.
fxInfoSettles ==
    /\ pc = "enrich"
    /\ br.fx.st = "pending" /\ br.fx.stage = "info"
    /\ \/ /\ br' = [br EXCEPT !.fx = Rejected]
          /\ UNCHANGED calls
       \/ \E cur \in CurrencySamples :
            LET currencyCode == FirstCurrency(Fulfilled("", 0, cur))
            IN  IF currencyCode # ""
                THEN /\ br' = [br EXCEPT !.fx = [Pending("rate") EXCEPT !.code = currencyCode]]
                     /\ calls' = Append(calls, Call("fxrate", NaN, NaN, TRUE))
                ELSE /\ br' = [br EXCEPT !.fx = FulfilledNull]
                     /\ UNCHANGED calls
    /\ UNCHANGED <<items, i, results, pc, city, geo, geoErr, pend, bundle, mtErr, notBatch>>

\* getExchangeRate, lines 343-350: data?.rates?.[quote] || null
fxRateSettles ==
    /\ pc = "enrich"
    /\ br.fx.st = "pending" /\ br.fx.stage = "rate"
    /\ \E out \in {"throw", "rate", "noRate"} :
         br' = [br EXCEPT !.fx =
                  CASE out = "throw" -> [Rejected EXCEPT !.code = br.fx.code]
                    [] out = "rate" -> Fulfilled(br.fx.code, RateOf(br.fx.code), <<>>)
                    [] OTHER -> [FulfilledNull EXCEPT !.code = br.fx.code]]
    /\ UNCHANGED <<items, i, results, pc, city, geo, geoErr, pend, calls, bundle, mtErr, notBatch>>

\* Lines 359 and 370-398: the join, then the bundle.
assemble ==
    /\ pc = "enrich"
    /\ JoinOutcome(br) # "wait"
    /\ IF JoinOutcome(br) = "values"
       THEN /\ bundle' = Assemble(city, geo, br)
            /\ UNCHANGED mtErr
       ELSE /\ mtErr' = NewError(<<"branch failed">>)
            /\ UNCHANGED bundle
    /\ pc' = "mtDone"
    /\ UNCHANGED <<items, i, results, city, geo, geoErr, pend, calls, br, notBatch>>

----------------------------------------------------------------------------
(* processItems, src/server.js 401-436 *)

\* lines 406-412
BlankOutcome(item) ==
    [originalItem |-> item, processed |-> FALSE, status |-> "error",
     error |-> <<"Destino vazio/ invalido">>, data |-> "none"]

\* Lines 418-424.  While the element is the current one its bundle is the
\* variable bundle; the array entry records that it carries one.
SuccessOutcome(c) ==
    [originalItem |-> Str(c), processed |-> TRUE, status |-> "success",
     error |-> <<>>, data |-> "bundle"]

\* lines 426-432
ErrorOutcome(c, err) ==
    [originalItem |-> Str(c), processed |-> FALSE, status |-> "error",
     error |-> explainFetchError(err), data |-> "none"]

\* a catch block that records nothing
CatchPushNothing(res, c, err) == res

\* lines 425-433: the catch block records the failure
CatchPush(res, c, err) == Append(res, ErrorOutcome(c, err))

\* The input arrays explored.
ItemLists == UNION {[1..n -> ItemSamples] : n \in 1..MaxItems}

BatchInit ==
    /\ items \in ItemLists
    /\ i = 0
    /\ results = <<>>
    /\ pc = "start"
    /\ city = <<>>
    /\ geo = NoGeo
    /\ geoErr = NoErr
    /\ pend = NoGeo
    /\ calls = <<>>
    /\ br = NoBranches
    /\ bundle = NoBundle
    /\ mtErr = NoErr

\* Lines 403-415: the loop test, the trimmed city and the blank check.  The
\* locals of the previous iteration are gone.
itemStart ==
    /\ pc = "start"
    /\ i < Len(items)
    /\ city' = Trim(StringOrEmpty(items[i + 1]))
    /\ geo' = NoGeo /\ geoErr' = NoErr /\ pend' = NoGeo /\ calls' = <<>>
    /\ br' = NoBranches /\ bundle' = NoBundle /\ mtErr' = NoErr
    /\ IF IsBlank(city')
       THEN /\ results' = Append(results, BlankOutcome(items[i + 1]))
            /\ i' = i + 1
            /\ pc' = "start"
       ELSE /\ pc' = "geoA"
            /\ UNCHANGED <<results, i>>
    /\ UNCHANGED <<items, notBatch>>

\* Lines 417-433: makeTravelInfoRequest returned or threw; record the
\* outcome and go on with the next element.
pushOutcome ==
    /\ pc = "mtDone"
    /\ results' = IF mtErr = NoErr
                  THEN Append(results, SuccessOutcome(city))
                  ELSE CatchPush(results, city, mtErr)
    /\ i' = i + 1
    /\ pc' = "start"
    /\ UNCHANGED <<items, city, geo, geoErr, pend, calls, br, bundle, mtErr, notBatch>>

\* line 435
processReturn ==
    /\ pc = "start"
    /\ i >= Len(items)
    /\ pc' = "done"
    /\ UNCHANGED <<items, i, results, city, geo, geoErr, pend, calls, br, bundle, mtErr, notBatch>>

BatchNext ==
    \/ itemStart
    \/ geoProviderA
    \/ waitGeocodeSlot
    \/ geoProviderB
    \/ geoProviderC
    \/ geoReverse
    \/ enrichStart
    \/ weatherSettles
    \/ countrySettles
    \/ holidaysSettles
    \/ fxInfoSettles
    \/ fxRateSettles
    \/ assemble
    \/ pushOutcome
    \/ processReturn

----------------------------------------------------------------------------
(* The rate gate over time, src/server.js 151-159, and the requests of     *)
(* geocodeCity that are sent behind it (lines 183-199, 210-223, 240-246)   *)

GEOCODE_MIN_INTERVAL_MS == 1200

\* default of the retries option; the calls of geocodeCity do not override it
DefaultRetries == 4

\* Date.now() when the first batch arrives, as an offset: the real clock is
\* far beyond GEOCODE_MIN_INTERVAL_MS, so the first call never waits.
StartTimes == {1200, 1500}

\* Math.max(0, x)
Max0(x) == IF x > 0 THEN x ELSE 0

\* a gate that never waits
GateWaitNone(last, now) == 0

\* line 156
GateWait(last, now) == Max0(last + GEOCODE_MIN_INTERVAL_MS - now)

\* the batches whose sleep() timer is pending
Sleeping == {c \in g_callers : g_pc[c] \in {"gateSleep", "backoff"}}

GateInit ==
    /\ g_callers \in {{1}, {1, 2}}
    /\ g_now \in StartTimes
    /\ lastGeocodeAt = 0
    /\ g_pc = [c \in g_callers |-> "call"]
    /\ g_wake = [c \in g_callers |-> 0]
    /\ g_attempt = [c \in g_callers |-> 0]
    /\ g_calls = 0
    /\ g_fails = 0
    /\ g_acqGap = <<>>
    /\ g_lastReq = <<>>
    /\ g_reqGap = <<>>

\* Line 158, lastGeocodeAt = Date.now(): the gate is passed.  The time since
\* the previous passage is kept; before the first passage lastGeocodeAt is
\* the initial 0 and there is none.
Acquire(c) ==
    /\ lastGeocodeAt' = g_now
    /\ g_acqGap' = IF lastGeocodeAt = 0 THEN <<>> ELSE <<g_now - lastGeocodeAt>>
    /\ g_pc' = [g_pc EXCEPT ![c] = "fetch"]
    /\ g_attempt' = [g_attempt EXCEPT ![c] = 0]

\* Lines 155-158 up to the await: with wait = 0 the function runs on to line
\* 158 without yielding; else it starts the timer and yields.
gateEnter(c) ==
    /\ g_pc[c] = "call"
    /\ g_calls < MaxCalls
    /\ g_calls' = g_calls + 1
    /\ LET wait == GateWait(lastGeocodeAt, g_now)
       IN  IF wait # 0
           THEN /\ g_pc' = [g_pc EXCEPT ![c] = "gateSleep"]
                /\ g_wake' = [g_wake EXCEPT ![c] = g_now + wait]
                /\ UNCHANGED <<lastGeocodeAt, g_acqGap, g_attempt>>
           ELSE /\ Acquire(c)
                /\ UNCHANGED g_wake
    /\ UNCHANGED <<g_callers, g_now, g_fails, g_lastReq, g_reqGap, notGate>>

\* Lines 157-158 after the await: the timer has fired, at its due time or
\* later, and line 158 runs.
gateWake(c) ==
    /\ g_pc[c] = "gateSleep"
    /\ g_now >= g_wake[c]
    /\ Acquire(c)
    /\ g_wake' = [g_wake EXCEPT ![c] = 0]
    /\ UNCHANGED <<g_callers, g_now, g_calls, g_fails, g_lastReq, g_reqGap, notGate>>

\* fetchJSON lines 83-129 for a call behind the gate: the request of one
\* attempt goes out; the call ends (a value, or the throw of the last
\* attempt), or the attempt failed and the backoff timer is started.
gatedRequest(c) ==
    /\ g_pc[c] = "fetch"
    /\ g_lastReq' = <<g_now>>
    /\ g_reqGap' = IF g_lastReq = <<>> THEN <<>> ELSE <<g_now - g_lastReq[1]>>
    /\ \/ /\ g_pc' = [g_pc EXCEPT ![c] = "call"]
          /\ UNCHANGED <<g_wake, g_fails>>
       \/ /\ g_attempt[c] # DefaultRetries
          /\ g_fails < MaxFails
          /\ g_fails' = g_fails + 1
          /\ \E jitter \in JitterSamples :
               g_wake' = [g_wake EXCEPT ![c] = g_now + BackoffDelay(g_attempt[c], jitter)]
          /\ g_pc' = [g_pc EXCEPT ![c] = "backoff"]
    /\ UNCHANGED <<g_callers, g_now, lastGeocodeAt, g_attempt, g_calls, g_acqGap, notGate>>

\* line 129 and the loop increment: the backoff timer has fired
backoffWake(c) ==
    /\ g_pc[c] = "backoff"
    /\ g_now >= g_wake[c]
    /\ g_pc' = [g_pc EXCEPT ![c] = "fetch"]
    /\ g_attempt' = [g_attempt EXCEPT ![c] = g_attempt[c] + 1]
    /\ g_wake' = [g_wake EXCEPT ![c] = 0]
    /\ UNCHANGED <<g_callers, g_now, lastGeocodeAt, g_calls, g_fails, g_acqGap, g_lastReq,
                   g_reqGap, notGate>>

\* Time passes, up to the due time of a pending timer.  A timer fires late
\* when the clock has moved on to the due time of another one.
tick ==
    /\ \E c \in Sleeping :
         /\ g_wake[c] > g_now
         /\ g_now' = g_wake[c]
    /\ UNCHANGED <<g_callers, lastGeocodeAt, g_pc, g_wake, g_attempt, g_calls, g_fails,
                   g_acqGap, g_lastReq, g_reqGap, notGate>>

callerEnters == \E c \in g_callers : gateEnter(c)
callerWakes == \E c \in g_callers : gateWake(c)
callerRequests == \E c \in g_callers : gatedRequest(c)
callerBacksOff == \E c \in g_callers : backoffWake(c)

GateNext ==
    \/ callerEnters
    \/ callerWakes
    \/ callerRequests
    \/ callerBacksOff
    \/ tick

----------------------------------------------------------------------------
(* Specifications *)

\* The variables of the half a specification does not use stay as they are.
FetchIdle ==
    /\ f_retries = 0 /\ f_attempt = 0 /\ f_pc = "idle" /\ f_hist = <<>>
    /\ f_sleeps = 0 /\ f_delay = 0 /\ f_lastErr = NoErr
    /\ f_out = [value |-> NoValue, err |-> NoErr]

BatchIdle ==
    /\ items = <<>> /\ i = 0 /\ results = <<>> /\ pc = "idle" /\ city = <<>>
    /\ geo = NoGeo /\ geoErr = NoErr /\ pend = NoGeo /\ calls = <<>>
    /\ br = NoBranches /\ bundle = NoBundle /\ mtErr = NoErr

GateIdle ==
    /\ g_callers = {} /\ g_now = 0 /\ lastGeocodeAt = 0
    /\ g_pc = <<>> /\ g_wake = <<>> /\ g_attempt = <<>> /\ g_calls = 0 /\ g_fails = 0
    /\ g_acqGap = <<>> /\ g_lastReq = <<>> /\ g_reqGap = <<>>

Init == BatchInit /\ FetchIdle /\ GateIdle
Next == BatchNext
Spec == Init /\ [][Next]_vars

InitFetch == FetchInit /\ BatchIdle /\ GateIdle
NextFetch == FetchNext
SpecFetch == InitFetch /\ [][NextFetch]_vars

InitGate == GateInit /\ FetchIdle /\ BatchIdle
NextGate == GateNext
SpecGate == InitGate /\ [][NextGate]_vars

\* The three parts under fairness: a run is one batch (processItems), or one
\* call of fetchJSON, or the gate calls and gated requests of one batch.
\* The event loop runs every continuation that is ready, every timer fires
\* and every request is answered, fails or is aborted by its timeout; so a
\* step that stays possible is eventually taken.
InitLive ==
    \/ Init
    \/ InitFetch
    \/ InitGate /\ g_callers = {1}
NextLive ==
    \/ Next
    \/ NextFetch
    \/ NextGate
SpecLive == InitLive /\ [][NextLive]_vars /\ WF_vars(NextLive)

----------------------------------------------------------------------------
(* Properties of fetchJSON, checked under SpecFetch *)

\* the retryable statuses as the specification lists them
ListedRetryable == {408, 425, 429, 500, 502, 503, 504}

IsHttp(res) == res.kind = "http"
NonRetryableAnswer(res) ==
    IsHttp(res) /\ ~(res.status >= 200 /\ res.status <= 299) /\ res.status \notin ListedRetryable
RetryableAnswer(res) == IsHttp(res) /\ res.status \in ListedRetryable
ValidJsonAnswer(res) ==
    IsHttp(res) /\ res.status >= 200 /\ res.status <= 299 /\ res.body \in {"[]", "{\"a\":1}"}

\* t occurs in s as a run of consecutive tokens
Contains(s, t) ==
    \E k \in 0..(Len(s) - Len(t)) : SubSeq(s, k + 1, k + Len(t)) = t

\* C2: against a provider that always answers with a non-retryable status,
\* fetchJSON makes exactly one attempt, waits for no backoff, and fails with
\* an error whose description contains the status code.
C2_NonRetryableFailsAtOnce ==
    (f_hist # <<>> /\ \A k \in 1..Len(f_hist) : NonRetryableAnswer(f_hist[k]))
    => /\ Len(f_hist) = 1
       /\ f_sleeps = 0
       /\ f_pc = "threw"
       /\ Contains(f_out.err.message, NumText(f_hist[1].status))

\* C3: against a provider that answers its first N attempts with a retryable
\* status and then with a valid 2xx JSON body, and with retries >= N,
\* fetchJSON returns the parsed value after exactly N+1 attempts: it returns
\* on the first valid answer, and while only retryable statuses have been
\* seen it gives up on attempt retries+1 and no earlier.
C3_RetryThenSuccess ==
    /\ \A n \in 0..f_retries :
         (/\ Len(f_hist) > n
          /\ \A k \in 1..n : RetryableAnswer(f_hist[k])
          /\ ValidJsonAnswer(f_hist[n + 1]))
         => /\ f_pc = "returned"
            /\ Len(f_hist) = n + 1
            /\ f_sleeps = n
            /\ f_out.value = JSONparse(f_hist[n + 1].body).value
            /\ f_out.value # NoValue
    /\ (f_pc = "threw" /\ \A k \in 1..Len(f_hist) : RetryableAnswer(f_hist[k]))
       => Len(f_hist) = f_retries + 1

\* C3's case: two retryable answers, then the value is returned
C3_Witness ==
    /\ f_pc = "returned"
    /\ Len(f_hist) = 3
    /\ f_hist[1].status = 503
    /\ f_hist[2].status = 429
    /\ f_out.value = "object"

\* C13: the wait that follows failed attempt k (0-based) lasts at least
\* baseDelayMs * 2^k and at most baseDelayMs * 2^k + 250 ms, one wait follows
\* each attempt that is retried, and no wait follows the attempt on which the
\* call returns or fails.
C13_BackoffBounds ==
    /\ f_sleeps >= 1
       => /\ f_delay >= baseDelayMs * 2^(f_sleeps - 1)
          /\ f_delay <= baseDelayMs * 2^(f_sleeps - 1) + 250
    /\ f_pc = "loop" => f_sleeps = Len(f_hist)
    /\ f_pc \in {"sleep", "returned", "threw"} => f_sleeps = Len(f_hist) - 1

\* C13's case: the call ended on its third attempt, after the longest wait
\* that can follow attempt 1
C13_Witness ==
    /\ f_pc \in {"returned", "threw"}
    /\ Len(f_hist) = 3
    /\ f_sleeps = 2
    /\ f_delay = 949

\* an answer that is a failure of the kinds that are retried: a transport
\* failure or abort, a retryable status, or a 2xx answer that is not JSON
FailingAnswer(res) ==
    \/ res.kind = "reject"
    \/ RetryableAnswer(res)
    \/ IsHttp(res) /\ res.status >= 200 /\ res.status <= 299 /\ ~ValidJsonAnswer(res)

\* C16: against a provider whose every attempt fails (transport failure,
\* retryable status or malformed 2xx payload, in any mix) fetchJSON goes on
\* after every attempt but the last, fails exactly on attempt retries+1 and
\* never returns; and it never makes more than retries+1 attempts.
C16_AlwaysFailingExhausts ==
    /\ Len(f_hist) <= f_retries + 1
    /\ (\A k \in 1..Len(f_hist) : FailingAnswer(f_hist[k]))
       => /\ f_pc \in {"loop", "sleep", "threw"}
          /\ f_pc = "threw" <=> Len(f_hist) = f_retries + 1
          /\ f_sleeps >= Len(f_hist) - 1

\* C16's case: a transport failure, a retryable status and a malformed 2xx
\* payload, and the call failed on the third of three attempts
C16_Witness ==
    /\ f_retries = 2
    /\ f_pc = "threw"
    /\ Len(f_hist) = 3
    /\ f_hist[1].kind = "reject"
    /\ f_hist[2].status = 503
    /\ f_hist[3].status = 200 /\ f_hist[3].body = "<html>"

----------------------------------------------------------------------------
(* Properties of processItems, geocodeCity and makeTravelInfoRequest,     *)
(* checked under Spec                                                     *)

\* an input that is blank after trimming: null, or spaces only
BlankInput(item) ==
    item.type = "null" \/ \A k \in 1..Len(item.chars) : item.chars[k] = " "

\* t is s without its leading and trailing spaces
IsTrimOf(t, s) ==
    /\ t # <<>> /\ t[1] # " " /\ t[Len(t)] # " "
    /\ \E a \in 0..Len(s) :
         /\ a + Len(t) <= Len(s)
         /\ SubSeq(s, a + 1, a + Len(t)) = t
         /\ \A k \in 1..a : s[k] = " "
         /\ \A k \in (a + Len(t) + 1)..Len(s) : s[k] = " "

\* the outcome o is the outcome of the input item
BelongsTo(o, item) ==
    IF BlankInput(item) THEN o.originalItem = item
    ELSE o.originalItem.type = "string" /\ IsTrimOf(o.originalItem.chars, item.chars)

\* C1: processItems returns exactly one outcome per input, in input order,
\* whatever mix of blank inputs, geocoding failures and enrichment failures
\* occurs: every element handled so far has its own outcome at its own
\* index, and the list returned is as long as the input.
C1_OneOutcomePerInput ==
    /\ Len(results) = i
    /\ i <= Len(items)
    /\ \A k \in 1..Len(results) : BelongsTo(results[k], items[k])
    /\ pc = "done" => Len(results) = Len(items)

\* C1's case: a batch has returned whose first element failed to geocode and
\* whose second element succeeded although an enrichment branch failed
C1_Witness ==
    /\ pc = "done"
    /\ Len(results) = 2
    /\ ~BlankInput(items[1]) /\ results[1].status = "error"
    /\ results[2].status = "success"
    /\ br.weather.st = "rejected"

\* C4: a blank input yields a failure outcome, and no geocoding, rate-gate
\* or enrichment call is made on its behalf.
C4_BlankNoNetwork ==
    /\ \A k \in 1..Len(results) :
         BlankInput(items[k]) => results[k].status = "error" /\ ~results[k].processed
    /\ (pc \notin {"start", "done"} /\ BlankInput(items[i + 1])) => calls = <<>>
    /\ (pc \in {"start", "done"} /\ i >= 1 /\ BlankInput(items[i])) => calls = <<>>

\* C4's case: a whitespace-only element has just been recorded as a failure,
\* after an element that did make calls
C4_Witness ==
    /\ pc = "start"
    /\ i = 2
    /\ items[2] = Str(<<" ">>)
    /\ results[1].status = "success"
    /\ results[2].status = "error"
    /\ calls = <<>>

\* the search calls of the current resolution, in the order they were made
Searches == SelectSeq(calls, LAMBDA c : c.op \in {"A", "B", "C"})
Reverses == SelectSeq(calls, LAMBDA c : c.op = "reverse")
ProviderOrder == <<"A", "B", "C">>

\* C5: the providers are tried in the order A, B, C, each only after the
\* previous one completed without a usable result; the first usable result
\* ends the chain, and when provider A yields it neither provider B,
\* provider C, the reverse lookup nor the rate gate is invoked.
C5_ProviderOrder ==
    /\ Len(Searches) <= 3
    /\ \A k \in 1..Len(Searches) : Searches[k].op = ProviderOrder[k]
    /\ \A k \in 2..Len(Searches) : ~Searches[k - 1].ok
    /\ (\E k \in 1..Len(calls) : calls[k].op = "A" /\ calls[k].ok)
       => \A k \in 1..Len(calls) : calls[k].op \notin {"B", "C", "reverse", "gate"}
    /\ (\E k \in 1..Len(Searches) : Searches[k].ok) /\ pc \notin {"gateRevB", "revB", "gateRevC", "revC"}
       => geo.st = "ok"

\* C5's case: provider A answered with a result and the resolution is over
C5_Witness ==
    /\ pc = "enrich"
    /\ calls[1].op = "A" /\ calls[1].ok
    /\ geo.st = "ok"

\* C6: when all three providers fail or answer with nothing usable,
\* geocodeCity returns null, and no exception ever escapes it.
C6_AllFailNull ==
    /\ geoErr = NoErr
    /\ (Len(Searches) = 3 /\ ~Searches[3].ok) => geo = NullGeo

\* C6's case: the three providers were tried, none yielded a result
C6_Witness ==
    /\ pc = "geoDone"
    /\ Len(Searches) = 3
    /\ \A k \in 1..3 : ~Searches[k].ok
    /\ geo.st = "null"

\* the answer of provider B has finite coordinates and no country code
BNoCodeFinite(c) ==
    /\ c.op = "B" /\ c.ok
    /\ c.res.country_code = ""
    /\ IsFinite(parseFloat(c.res.lat)) /\ IsFinite(parseFloat(c.res.lon))

\* C7: when provider A yields no result and provider B answers with finite
\* coordinates and no country code, the reverse lookup is invoked exactly
\* once, with those coordinates, provider C is not invoked, and a failure of
\* the reverse lookup leaves the result returned with no country code.
C7_ReverseOnce ==
    /\ Len(Reverses) <= 1
    /\ (geo.st # "none" /\ Len(Searches) >= 2 /\ BNoCodeFinite(Searches[2]))
       => /\ Len(Searches) = 2
          /\ Len(Reverses) = 1
          /\ Reverses[1].lat = parseFloat(Searches[2].res.lat)
          /\ Reverses[1].lon = parseFloat(Searches[2].res.lon)
          /\ geo.st = "ok"
          /\ geo.latitude = Reverses[1].lat /\ geo.longitude = Reverses[1].lon
          /\ ~Reverses[1].ok => geo.country_code = ""

\* C7's case: provider B answered without a country code, the reverse lookup
\* failed, and the result was returned
C7_Witness ==
    /\ pc = "geoDone"
    /\ Len(Searches) = 2 /\ BNoCodeFinite(Searches[2])
    /\ Len(Reverses) = 1 /\ ~Reverses[1].ok
    /\ geo = Geo("", Num(12), Num(34))

Branches == {"weather", "country", "holidays", "fx"}

\* the slot of the bundle a branch fills
SlotNull(b, k) ==
    CASE k = "weather" -> b.weather.isNull
      [] k = "country" -> b.countryInfo.isNull
      [] k = "holidays" -> b.holidays.isNull
      [] OTHER -> b.exchange.isNull

\* the branch settled with a value (the country-info branch: with a country
\* that has a currency)
Succeeded(b, k) ==
    /\ b[k].st = "fulfilled" /\ ~b[k].isNull
    /\ k = "country" => b[k].currencies # <<>>

\* C8: for each of the four branches, when that branch's own provider call
\* fails while the other three branches succeed, the bundle has null in that
\* branch's slot and a value in the other three slots.
C8_BranchesIndependent ==
    (pc = "mtDone" /\ bundle.st = "ok")
    => \A k \in Branches :
         (br[k].st = "rejected" /\ \A o \in Branches \ {k} : Succeeded(br, o))
         => /\ SlotNull(bundle, k)
            /\ \A o \in Branches \ {k} : ~SlotNull(bundle, o)

\* C9: given a non-null GeoResult the enrichment never fails as a whole:
\* whatever branches fail, makeTravelInfoRequest returns a bundle, and every
\* failed branch has null in its slot.
C9_EnrichNeverFails ==
    (geo.st = "ok" /\ pc \in {"mtDone", "start", "done"})
    => /\ mtErr = NoErr
       /\ bundle.st = "ok"
       /\ \A k \in Branches : br[k].st = "rejected" => SlotNull(bundle, k)

\* C9's case: the four branches failed and a bundle was returned
C9_Witness ==
    /\ pc = "mtDone"
    /\ \A k \in Branches : br[k].st = "rejected"
    /\ bundle.st = "ok"

\* C10: an element's outcome is a failure exactly when the element is blank
\* or geocodeCity returned null for it.
C10_FailureIff ==
    (pc \in {"start", "done"} /\ i >= 1)
    => /\ results[i].status \in {"success", "error"}
       /\ results[i].status = "error" <=> (BlankInput(items[i]) \/ geo.st = "null")
       /\ results[i].processed <=> results[i].status = "success"

\* C10's case: a success outcome recorded although every branch failed and
\* two providers had to be skipped
C10_Witness ==
    /\ pc = "start" /\ i >= 1
    /\ results[i].status = "success"
    /\ Len(Searches) = 3
    /\ \A k \in Branches : br[k].st = "rejected"

\* the enrichment requests made for the current element
EnrichOps == {"weather", "country", "holidays", "fxcountry", "fxrate"}
EnrichCalls == SelectSeq(calls, LAMBDA c : c.op \in EnrichOps)

\* C11: an enrichment call for an element has been started only if
\* geocodeCity returned a non-null result for it, and a bundle exists only
\* then; when geocodeCity returns null the element becomes a failure outcome
\* and no enrichment call is made for it.
C11_EnrichOnlyAfterGeo ==
    /\ (EnrichCalls # <<>> \/ br # NoBranches \/ bundle # NoBundle) => geo.st = "ok"
    /\ geo.st = "null" => /\ EnrichCalls = <<>>
                          /\ pc \in {"geoDone", "mtDone", "start", "done"}
    /\ (geo.st = "null" /\ pc \in {"start", "done"})
       => /\ i >= 1
          /\ results[i].status = "error" /\ ~results[i].processed

\* C11's case: the three providers were tried, geocodeCity returned null and
\* the element was recorded as a failure
C11_Witness ==
    /\ pc = "start" /\ i >= 1
    /\ geo.st = "null"
    /\ Len(Searches) = 3
    /\ results[i].status = "error"
    /\ EnrichCalls = <<>>

\* C17: the enrichment step starts all four branches and produces the
\* bundle only after all four have settled; while a branch is pending it can
\* still settle, whatever happened to its siblings, and no outcome of the
\* step exists while a branch is pending.
C17_JoinWaitsForAll ==
    /\ pc = "enrich" => \A k \in Branches : br[k].stage # "none"
    /\ (geo.st = "ok" /\ pc \in {"mtDone", "start", "done"})
       => \A k \in Branches : br[k].st # "pending"
    /\ (pc = "enrich" /\ \E k \in Branches : br[k].st = "pending")
       => bundle = NoBundle /\ mtErr = NoErr
    /\ (pc = "enrich" /\ br.weather.st = "pending") => ENABLED weatherSettles
    /\ (pc = "enrich" /\ br.country.st = "pending") => ENABLED countrySettles
    /\ (pc = "enrich" /\ br.holidays.st = "pending") => ENABLED holidaysSettles
    /\ (pc = "enrich" /\ br.fx.st = "pending") => ENABLED (fxInfoSettles \/ fxRateSettles)

\* C17's case: the weather branch failed, its three siblings ran on to a
\* value, and the bundle carries their values
C17_Witness ==
    /\ pc = "mtDone"
    /\ br.weather.st = "rejected"
    /\ \A k \in Branches \ {"weather"} : Succeeded(br, k)
    /\ bundle.st = "ok"
    /\ ~bundle.holidays.isNull /\ ~bundle.countryInfo.isNull

\* geocodeCity returned a result without a country code
NoCountryCode == geo.st = "ok" /\ geo.country_code = ""

\* C18: when the GeoResult carries no country code the weather request is
\* the only enrichment request made, and the countryInfo, holidays and
\* exchange slots of the bundle are null.
C18_NoCodeWeatherOnly ==
    NoCountryCode
    => /\ \A k \in 1..Len(EnrichCalls) : EnrichCalls[k].op = "weather"
       /\ pc \in {"enrich", "mtDone", "start", "done"} => Len(EnrichCalls) = 1
       /\ bundle.st = "ok" => /\ bundle.countryInfo.isNull
                              /\ bundle.holidays.isNull
                              /\ bundle.exchange.isNull

\* C18's case: a bundle built for a result without a country code, with the
\* weather in it
C18_Witness ==
    /\ pc = "mtDone"
    /\ NoCountryCode
    /\ bundle.st = "ok"
    /\ ~bundle.weather.isNull
    /\ Len(EnrichCalls) = 1

\* C20: whenever the exchange slot of the bundle is non-null, its base is
\* the currency the exchange branch used as base of the rate request, and
\* its rate is the rate of that base.
C20_BaseIsRateCurrency ==
    (bundle.st = "ok" /\ ~bundle.exchange.isNull)
    => /\ bundle.exchange.base = br.fx.code
       /\ bundle.exchange.rate = RateOf(bundle.exchange.base)

----------------------------------------------------------------------------
(* Properties of the rate gate, checked under SpecGate *)

\* C12: when waitGeocodeSlot is called by a single batch, each call after
\* the previous one returned, the acquisition times of two consecutive
\* calls are at least 1200 ms apart, also when the second call follows the
\* first at once.
C12_SequentialGate ==
    g_callers = {1} => (g_acqGap # <<>> => g_acqGap[1] >= 1200)

\* C12's case: a single batch called the gate a second time at the instant
\* it had passed it, and passed it again 1200 ms later
C12_Witness ==
    /\ g_callers = {1}
    /\ g_calls = 2
    /\ g_fails = 0
    /\ g_acqGap = <<1200>>

\* C14: whatever the interleaving of the calls of waitGeocodeSlot made by
\* batches in flight at the same time, no two acquisitions are less than
\* 1200 ms apart.
C14_ConcurrentGate ==
    g_acqGap # <<>> => g_acqGap[1] >= 1200

\* C15: any two consecutive requests sent to the rate-limited geocoding
\* providers, the retry attempts of one fetchJSON call included, are at
\* least 1200 ms apart.
C15_RequestsSpaced ==
    g_reqGap # <<>> => g_reqGap[1] >= 1200

----------------------------------------------------------------------------
(* Termination, checked under SpecLive *)

\* the batch has returned its result list
BatchReturned == pc = "done" /\ Len(results) = Len(items)

\* the call of fetchJSON has returned or thrown
FetchEnded == f_pc \in {"returned", "threw"}

\* every gate call and gated request that was started is over: no timer is
\* pending and no call of fetchJSON is in its loop
GateEnded == g_callers # {} /\ g_calls = MaxCalls /\ \A c \in g_callers : g_pc[c] = "call"

\* C19: a batch that was started runs to completion.  When every request
\* is eventually answered, fails or is aborted and every timer fires,
\* processItems eventually returns its result list, the retry loop of
\* fetchJSON eventually returns or throws, and every wait of the rate gate
\* and of the backoff ends.
C19_RunsToCompletion == <>(BatchReturned \/ FetchEnded \/ GateEnded)

\* C19's case: a batch of two has returned, the second element having gone
\* through the three providers, a reverse lookup and a failed branch
C19_Witness ==
    /\ BatchReturned
    /\ Len(items) = 2
    /\ Len(Searches) = 3 /\ Len(Reverses) = 1
    /\ results[2].status = "success"
    /\ br.holidays.st = "rejected"

====
